---- MODULE Spec2Model ----
(***************************************************************************)
(* Model of the Geometry ITS backend (src/main.py): an ontology loaded     *)
(* once at import time and five request handlers that read it.             *)
(*                                                                         *)
(* Python values are modelled as records of one shape, so that values of   *)
(* different Python types can be compared: None, a str (a sequence of      *)
(* one-character strings), an int, or a literal that owlready2 cannot      *)
(* convert (reading it raises ValueError).                                 *)
(***************************************************************************)
EXTENDS Integers, Sequences, FiniteSets

VARIABLES onto, loaded, last, workers, student

vars == <<onto, loaded, last, workers, student>>

----------------------------------------------------------------------------
(* Python values *)

PyNone == [t |-> "none", s |-> <<>>, n |-> 0]

PyS(s) == [t |-> "str", s |-> s, n |-> 0]

PyI(n) == [t |-> "int", s |-> <<>>, n |-> n]

Unreadable == [t |-> "bad", s |-> <<>>, n |-> 0]

\* bool(v): None, "" and 0 are falsy.
Truthy(v) ==
    \/ v.t = "str" /\ Len(v.s) > 0
    \/ v.t = "int" /\ v.n # 0

----------------------------------------------------------------------------
(* Strings *)

Digit == <<"0", "1", "2", "3", "4", "5", "6", "7", "8", "9">>

RECURSIVE NatToStr(_)
NatToStr(n) ==
    IF n < 10 THEN <<Digit[n + 1]>>
    ELSE NatToStr(n \div 10) \o <<Digit[(n % 10) + 1]>>

\* str(v) for a value that is not None: a str is returned as it is, an int
\* in decimal.
PyStr(v) ==
    IF v.t = "str" THEN v.s
    ELSE IF v.n < 0 THEN <<"-">> \o NatToStr(-v.n)
    ELSE NatToStr(v.n)

IsDigit(ch) == \E d \in 1..10 : Digit[d] = ch

DigitVal(ch) == (CHOOSE d \in 1..10 : Digit[d] = ch) - 1

IsSpace(ch) == ch = " "

RECURSIVE LStrip(_)
LStrip(s) ==
    IF s = <<>> THEN s
    ELSE IF IsSpace(Head(s)) THEN LStrip(Tail(s))
    ELSE s

RECURSIVE RStrip(_)
RStrip(s) ==
    IF s = <<>> THEN s
    ELSE IF IsSpace(s[Len(s)]) THEN RStrip(SubSeq(s, 1, Len(s) - 1))
    ELSE s

\* str.strip(): leading and trailing whitespace removed.
Strip(s) == RStrip(LStrip(s))

LowerChar(ch) ==
    CASE ch = "A" -> "a"
      [] ch = "B" -> "b"
      [] ch = "C" -> "c"
      [] OTHER -> ch

\* str.lower()
Lower(s) == [i \in 1..Len(s) |-> LowerChar(s[i])]

\* ord(ch) for the characters of the model's alphabet.
Ord(ch) ==
    CASE ch = " " -> 32
      [] ch = "-" -> 45
      [] IsDigit(ch) -> 48 + DigitVal(ch)
      [] ch = "A" -> 65
      [] ch = "B" -> 66
      [] ch = "C" -> 67
      [] ch = "Z" -> 90
      [] ch = "a" -> 97
      [] ch = "b" -> 98
      [] ch = "c" -> 99
      [] OTHER -> 122

\* s < t for two str: lexicographic by code point.
RECURSIVE StrLess(_, _)
StrLess(s, t) ==
    IF t = <<>> THEN FALSE
    ELSE IF s = <<>> THEN TRUE
    ELSE IF Ord(Head(s)) # Ord(Head(t)) THEN Ord(Head(s)) < Ord(Head(t))
    ELSE StrLess(Tail(s), Tail(t))

RECURSIVE DigitsToNat(_, _)
DigitsToNat(s, acc) ==
    IF s = <<>> THEN acc
    ELSE DigitsToNat(Tail(s), 10 * acc + DigitVal(Head(s)))

\* int(v), or None where int(v) and int(str(v)) both raise.
PyInt(v) ==
    IF v.t = "int" THEN PyI(v.n)
    ELSE LET d == Strip(v.s)
         IN  IF d # <<>> /\ \A i \in 1..Len(d) : IsDigit(d[i])
             THEN PyI(DigitsToNat(d, 0))
             ELSE PyNone

----------------------------------------------------------------------------
(* The ontology *)

\* Individuals of the ontology; an individual's identifier stands for its IRI.
Entities == {"e1", "e2", "e3"}

\* What default_world[iri] may hand back for an IRI it does not know.
NoEntity == "None"

\* The names the handlers look up on the ontology with hasattr / getattr.
SchemaNames ==
    {"GeometricConcept", "Problem", "hasPrerequisite", "teachesConcept",
     "hasHint", "hasConceptCode", "hasDifficultyLevel", "hasDescription",
     "hasProblemText", "hasCorrectAnswer"}

\* cls.instances(), in the ontology's iteration order.
instances(o, cls) ==
    SelectSeq(o.order, LAMBDA e : cls \in o.ents[e].classes)

get_label(o, e) ==
    IF Truthy(o.ents[e].label) THEN o.ents[e].label.s
    ELSE o.ents[e].name

\* The first value of a data property, None when the property is not in
\* the ontology, the entity has no value, or reading it raises.
get_data_prop(o, e, prop_name) ==
    IF prop_name \notin o.schema THEN PyNone
    ELSE IF e = NoEntity THEN PyNone
    ELSE IF o.ents[e][prop_name].t = "bad" THEN PyNone
    ELSE o.ents[e][prop_name]

get_concept_code(o, e) ==
    LET val == get_data_prop(o, e, "hasConceptCode")
    IN  IF val # PyNone THEN PyS(PyStr(val)) ELSE PyNone

\* The entities an object property links e to, [] when the ontology has no
\* such property.
linked(o, e, prop_name) ==
    IF prop_name \in o.schema THEN o.ents[e][prop_name] ELSE <<>>

RECURSIVE codes_of(_, _)
\* The codes of the entities of a list, those without a code left out.
codes_of(o, es) ==
    IF es = <<>> THEN <<>>
    ELSE LET pc == get_concept_code(o, Head(es))
         IN  (IF Truthy(pc) THEN <<pc.s>> ELSE <<>>) \o codes_of(o, Tail(es))

RECURSIVE find_in(_, _, _)
find_in(o, es, code) ==
    IF es = <<>> THEN NoEntity
    ELSE IF get_concept_code(o, Head(es)) = PyS(code) THEN Head(es)
    ELSE find_in(o, Tail(es), code)

find_concept_by_code(o, code) ==
    IF "GeometricConcept" \notin o.schema THEN NoEntity
    ELSE find_in(o, instances(o, "GeometricConcept"), code)

concept_to_model(o, c) ==
    LET code == get_concept_code(o, c)
        difficulty == get_data_prop(o, c, "hasDifficultyLevel")
        desc == get_data_prop(o, c, "hasDescription")
    IN  [iri |-> c,
         code |-> code,
         label |-> get_label(o, c),
         description |-> IF desc # PyNone THEN PyS(PyStr(desc)) ELSE PyNone,
         difficulty |-> IF difficulty # PyNone THEN PyInt(difficulty) ELSE PyNone,
         prerequisites |-> codes_of(o, linked(o, c, "hasPrerequisite")),
         image_key |-> code]

ToSet(seq) == {seq[i] : i \in 1..Len(seq)}

\* The value the sort key puts in place of a falsy difficulty.
DefaultDifficulty == 999

\* The key of suggestions.sort: (x.difficulty or 999, x.label.lower())
sort_key(x) ==
    [difficulty |-> IF Truthy(x.difficulty) THEN x.difficulty.n ELSE DefaultDifficulty,
     label |-> Lower(x.label)]

KeyLess(a, b) ==
    \/ a.difficulty < b.difficulty
    \/ a.difficulty = b.difficulty /\ StrLess(a.label, b.label)

RECURSIVE InsertByKey(_, _)
\* x put into the sorted list xs, after every element whose key is not
\* greater than x's.
InsertByKey(x, xs) ==
    IF xs = <<>> THEN <<x>>
    ELSE IF KeyLess(sort_key(x), sort_key(Head(xs))) THEN <<x>> \o xs
    ELSE <<Head(xs)>> \o InsertByKey(x, Tail(xs))

RECURSIVE sort_suggestions(_)
\* list.sort(key=...): stable, elements with equal keys keep their order.
sort_suggestions(xs) ==
    IF xs = <<>> THEN <<>>
    ELSE InsertByKey(xs[Len(xs)], sort_suggestions(SubSeq(xs, 1, Len(xs) - 1)))

\* suggest_step without the test that skips a mastered concept.
suggest_step_keeps_mastered(o, mastered, suggestions, c) ==
    LET code == get_concept_code(o, c)
    IN  IF ~Truthy(code) THEN suggestions
        ELSE IF ToSet(codes_of(o, linked(o, c, "hasPrerequisite"))) \subseteq mastered
             THEN Append(suggestions, concept_to_model(o, c))
             ELSE suggestions

\* suggest_step taking a concept only when it has prerequisites to check.
suggest_step_needs_prereqs(o, mastered, suggestions, c) ==
    LET code == get_concept_code(o, c)
        prereq_codes == codes_of(o, linked(o, c, "hasPrerequisite"))
    IN  IF ~Truthy(code) \/ code.s \in mastered THEN suggestions
        ELSE IF prereq_codes # <<>> /\ ToSet(prereq_codes) \subseteq mastered
             THEN Append(suggestions, concept_to_model(o, c))
             ELSE suggestions

\* suggest_step with the subset test the wrong way round.
suggest_step_subset_reversed(o, mastered, suggestions, c) ==
    LET code == get_concept_code(o, c)
    IN  IF ~Truthy(code) \/ code.s \in mastered THEN suggestions
        ELSE IF mastered \subseteq ToSet(codes_of(o, linked(o, c, "hasPrerequisite")))
             THEN Append(suggestions, concept_to_model(o, c))
             ELSE suggestions

\* One pass of the loop of suggest_next_concepts over concept c.
suggest_step(o, mastered, suggestions, c) ==
    LET code == get_concept_code(o, c)
    IN  IF ~Truthy(code) \/ code.s \in mastered THEN suggestions
        ELSE IF ToSet(codes_of(o, linked(o, c, "hasPrerequisite"))) \subseteq mastered
             THEN Append(suggestions, concept_to_model(o, c))
             ELSE suggestions

RECURSIVE suggest_loop(_, _, _, _)
suggest_loop(o, mastered, suggestions, cs) ==
    IF cs = <<>> THEN suggestions
    ELSE suggest_loop(o, mastered, suggest_step(o, mastered, suggestions, Head(cs)), Tail(cs))

\* suggestions_for answering with nothing when a mastered code is the code
\* of no concept.
suggestions_for_known_codes_only(o, req) ==
    IF "GeometricConcept" \notin o.schema THEN <<>>
    ELSE IF \E i \in 1..Len(req) : find_concept_by_code(o, req[i]) = NoEntity THEN <<>>
    ELSE sort_suggestions(
             suggest_loop(o, ToSet(req), <<>>, instances(o, "GeometricConcept")))

\* What POST /next-concepts returns for mastered_concepts = req.
suggestions_for(o, req) ==
    IF "GeometricConcept" \notin o.schema THEN <<>>
    ELSE sort_suggestions(
             suggest_loop(o, ToSet(req), <<>>, instances(o, "GeometricConcept")))

problem_to_model(o, p) ==
    LET text == get_data_prop(o, p, "hasProblemText")
    IN  [iri |-> p,
         label |-> get_label(o, p),
         text |-> IF Truthy(text) THEN PyStr(text) ELSE <<>>,
         teaches_concepts |-> codes_of(o, linked(o, p, "teachesConcept")),
         has_hint_concepts |-> codes_of(o, linked(o, p, "hasHint"))]

\* What default_world[iri] does: the entity of that IRI; for an IRI of no
\* entity the library either raises KeyError or hands back None.
world_lookup(o, iri) ==
    IF iri \in DOMAIN o.ents THEN {iri} ELSE {"KeyError", NoEntity}

\* answer_result comparing with the stored answer lowered but not stripped.
answer_result_unstripped(o, problem, answer) ==
    LET correct_answer == get_data_prop(o, problem, "hasCorrectAnswer")
    IN  IF correct_answer = PyNone
        THEN [correct |-> FALSE, correct_answer |-> PyNone,
              feedback |-> "This problem does not have a stored correct answer."]
        ELSE LET user_ans == Lower(Strip(answer))
                 correct_norm == Lower(PyStr(correct_answer))
             IN  IF user_ans = correct_norm
                 THEN [correct |-> TRUE,
                       correct_answer |-> PyS(PyStr(correct_answer)),
                       feedback |-> "Correct! Well done."]
                 ELSE [correct |-> FALSE,
                       correct_answer |-> PyS(PyStr(correct_answer)),
                       feedback |-> "Not quite. Review the concept and try again."]

\* check_answer once the problem reference is resolved.
answer_result(o, problem, answer) ==
    LET correct_answer == get_data_prop(o, problem, "hasCorrectAnswer")
    IN  IF correct_answer = PyNone
        THEN [correct |-> FALSE, correct_answer |-> PyNone,
              feedback |-> "This problem does not have a stored correct answer."]
        ELSE LET user_ans == Lower(Strip(answer))
                 correct_norm == Lower(Strip(PyStr(correct_answer)))
             IN  IF user_ans = correct_norm
                 THEN [correct |-> TRUE,
                       correct_answer |-> PyS(PyStr(correct_answer)),
                       feedback |-> "Correct! Well done."]
                 ELSE [correct |-> FALSE,
                       correct_answer |-> PyS(PyStr(correct_answer)),
                       feedback |-> "Not quite. Review the concept and try again."]

----------------------------------------------------------------------------
(* Requests *)

\* The longest mastered_concepts list a request carries.
MaxMastered == 2

\* The longest answer, submitted or stored.
MaxAnswerLen == 2

\* The most prerequisite edges an ontology holds.
MaxEdges == 2

Strings(alphabet, maxLen) ==
    UNION {[1..n -> alphabet] : n \in 0..maxLen}

cA == <<"A">>
cB == <<"B">>
cC == <<"C">>
cZ == <<"Z">>

\* The codes requests name: those of the concepts, and one of no concept.
RequestCodes == {cA, cB, cC, cZ}

MasteredLists == Strings(RequestCodes, MaxMastered)

AnswerChars == {" ", "a", "A", "7"}

Answers == Strings(AnswerChars, MaxAnswerLen)

\* The problem references requests name: the IRIs of the ontology and one
\* of no entity.
RequestIris == Entities \cup {"nowhere"}

NoRequest == [op |-> "none", req |-> <<>>, status |-> 0, body |-> <<>>]

Response(op, req, status, body) ==
    [op |-> op, req |-> req, status |-> status, body |-> body]

----------------------------------------------------------------------------
(* What each handler answers on ontology o *)

\* GET /concepts
list_concepts_response(o) ==
    Response("list_concepts", <<>>, 200,
        IF "GeometricConcept" \notin o.schema THEN <<>>
        ELSE LET cs == instances(o, "GeometricConcept")
             IN  [i \in 1..Len(cs) |-> concept_to_model(o, cs[i])])

\* GET /concepts/{code}
get_concept_response(o, code) ==
    LET c == find_concept_by_code(o, code)
    IN  IF c = NoEntity
        THEN Response("get_concept", code, 404, [detail |-> "Concept not found"])
        ELSE Response("get_concept", code, 200, concept_to_model(o, c))

\* POST /next-concepts
suggest_next_concepts_response(o, req) ==
    Response("suggest_next_concepts", req, 200, suggestions_for(o, req))

\* GET /problems
list_problems_response(o) ==
    Response("list_problems", <<>>, 200,
        IF "Problem" \notin o.schema THEN <<>>
        ELSE LET ps == instances(o, "Problem")
             IN  [i \in 1..Len(ps) |-> problem_to_model(o, ps[i])])

\* POST /check-answer, problem being what default_world[req.problem_iri] did.
check_answer_response(o, req, problem) ==
    IF problem = "KeyError"
    THEN Response("check_answer", req, 404, [detail |-> "Problem not found"])
    ELSE Response("check_answer", req, 200, answer_result(o, problem, req.answer))

----------------------------------------------------------------------------
(* The handlers, one request at a time.  A request is answered in one      *)
(* step, which leaves the response in last; sending it makes room for the  *)
(* next request.                                                           *)

list_concepts ==
    /\ last.op = "none"
    /\ last' = list_concepts_response(onto)
    /\ UNCHANGED <<onto, loaded, workers, student>>

get_concept ==
    \E code \in RequestCodes :
        /\ last.op = "none"
        /\ last' = get_concept_response(onto, code)
        /\ UNCHANGED <<onto, loaded, workers, student>>

suggest_next_concepts ==
    \E req \in MasteredLists :
        /\ last.op = "none"
        /\ last' = suggest_next_concepts_response(onto, req)
        /\ UNCHANGED <<onto, loaded, workers, student>>

list_problems ==
    /\ last.op = "none"
    /\ last' = list_problems_response(onto)
    /\ UNCHANGED <<onto, loaded, workers, student>>

check_answer ==
    \E iri \in RequestIris, answer \in Answers :
        \E problem \in world_lookup(onto, iri) :
            /\ last.op = "none"
            /\ last' = check_answer_response(onto,
                           [problem_iri |-> iri, answer |-> answer], problem)
            /\ UNCHANGED <<onto, loaded, workers, student>>

\* The response leaves the process.
respond ==
    /\ last.op # "none"
    /\ last' = NoRequest
    /\ UNCHANGED <<onto, loaded, workers, student>>

----------------------------------------------------------------------------
(* The ontologies the process is started on *)

EntityOrder == <<"e1", "e2", "e3">>

DataProps ==
    {"hasConceptCode", "hasDifficultyLevel", "hasDescription",
     "hasProblemText", "hasCorrectAnswer"}

ObjectProps == {"hasPrerequisite", "teachesConcept", "hasHint"}

\* An individual with a name and nothing else.
Bare(name) ==
    [classes |-> {}, name |-> name, label |-> PyNone,
     hasConceptCode |-> PyNone, hasDifficultyLevel |-> PyNone,
     hasDescription |-> PyNone, hasProblemText |-> PyNone,
     hasCorrectAnswer |-> PyNone, hasPrerequisite |-> <<>>,
     teachesConcept |-> <<>>, hasHint |-> <<>>]

Individual(classes, name, code, difficulty, prereqs) ==
    [Bare(name) EXCEPT !.classes = classes, !.hasConceptCode = code,
                       !.hasDifficultyLevel = difficulty,
                       !.hasPrerequisite = prereqs]

Ontology(schema, ents, order) ==
    [schema |-> schema, ents |-> ents, order |-> order]

\* An ontology holds no instance of a class and no value of a property it
\* does not declare.
Consistent(o) ==
    \A e \in DOMAIN o.ents :
        /\ o.ents[e].classes \subseteq o.schema
        /\ \A p \in DataProps \ o.schema : o.ents[e][p] = PyNone
        /\ \A p \in ObjectProps \ o.schema : o.ents[e][p] = <<>>

\* The targets of e's edges, in the order of the individuals.
Targets(edges, e) == SelectSeq(EntityOrder, LAMBDA t : <<e, t>> \in edges)

EdgeSets == {es \in SUBSET (Entities \X Entities) : Cardinality(es) <= MaxEdges}

Schemas(optional) == {SchemaNames} \cup {SchemaNames \ {n} : n \in optional}

\* e1 and e2 are concepts, e3 is one when third is TRUE (all as far as the
\* ontology declares the class).
GraphOntology(sch, third, c1, c2, c3, es) ==
    LET concept == {"GeometricConcept"} \cap sch
    IN  Ontology(sch,
            [e \in Entities |->
                CASE e = "e1" -> Individual(concept, <<"a">>, c1, PyI(1), Targets(es, e))
                  [] e = "e2" -> Individual(concept, <<"b">>, c2, PyI(2), Targets(es, e))
                  [] OTHER    -> Individual(IF third THEN concept ELSE {}, <<"c">>, c3,
                                            PyNone, Targets(es, e))],
            EntityOrder)

\* The edges of the example: e2 requires e1 and e3 requires e2.
ChainEdges == {<<"e2", "e1">>, <<"e3", "e2">>}

\* Ontologies that differ in the prerequisite graph, in which individuals
\* carry a code (none, an empty one, one shared with another concept), and
\* in whether the third individual is a concept at all; and ontologies that
\* do not declare the concept class, the prerequisite property or the code
\* property, and hold what they can of the example.
GraphOntologies ==
    {GraphOntology(SchemaNames, third, c1, c2, c3, es) :
        third \in BOOLEAN,
        c1 \in {PyS(cA), PyNone},
        c2 \in {PyS(cB), PyS(cA), PyS(<<>>), PyNone},
        c3 \in {PyS(cC), PyNone},
        es \in EdgeSets}
    \cup
    {o \in {GraphOntology(sch, TRUE, c1, c2, c3, es) :
            sch \in Schemas({"GeometricConcept", "hasPrerequisite", "hasConceptCode"}),
            c1 \in {PyS(cA), PyNone},
            c2 \in {PyS(cB), PyNone},
            c3 \in {PyS(cC), PyNone},
            es \in {ChainEdges, {}}} :
        Consistent(o)}

Orderings(seq) ==
    {p \in [1..Len(seq) -> ToSet(seq)] : \A i, j \in 1..Len(seq) : i # j => p[i] # p[j]}

\* Difficulty literals: none, ints around the sort key's default, a str that
\* int() converts and one it does not.
DifficultyValues ==
    {PyNone, PyI(0), PyI(1), PyI(DefaultDifficulty), PyI(DefaultDifficulty + 1),
     PyS(<<"1">>), PyS(<<"a">>)}

\* Labels: none (the name stands in), and labels equal up to case.
LabelValues == {PyNone, PyS(<<"a">>), PyS(<<"A">>), PyS(<<"a", "b">>)}

\* Three concepts without prerequisites; the first two differ in difficulty
\* and label, and the iteration order of the instances differs.
OrderOntologies ==
    {Ontology(SchemaNames,
        [e \in Entities |->
            CASE e = "e1" -> [Individual({"GeometricConcept"}, <<"b">>, PyS(cA), d1, <<>>)
                                 EXCEPT !.label = l1]
              [] e = "e2" -> [Individual({"GeometricConcept"}, <<"B">>, PyS(cB), d2, <<>>)
                                 EXCEPT !.label = l2]
              [] OTHER    -> Individual({"GeometricConcept"}, <<"a", "b">>, PyS(cC),
                                        PyI(1), <<>>)],
        order) :
     d1 \in DifficultyValues, d2 \in DifficultyValues,
     l1 \in LabelValues, l2 \in LabelValues,
     order \in Orderings(EntityOrder)}

\* What an individual may hold as its correct answer: nothing, a literal
\* that cannot be read, an int, a str.
StoredAnswers == {PyNone, Unreadable, PyI(7)} \cup {PyS(a) : a \in Answers}

\* A problem with any stored answer, a concept that may carry an answer of
\* its own, and a third individual that is a problem or of no class.
AnswerOntology(sch, a1, a2, third) ==
    Ontology(sch,
        [e \in Entities |->
            CASE e = "e1" -> [Bare(<<"a">>) EXCEPT !.classes = {"Problem"} \cap sch,
                                                   !.hasCorrectAnswer = a1]
              [] e = "e2" -> [Individual({"GeometricConcept"}, <<"b">>, PyS(cA), PyI(1), <<>>)
                                 EXCEPT !.hasCorrectAnswer = a2]
              [] OTHER    -> [Bare(<<"c">>) EXCEPT
                                 !.classes = IF third THEN {"Problem"} \cap sch ELSE {},
                                 !.label = PyS(<<"C">>),
                                 !.hasProblemText = PyS(<<"a", " ", "b">>),
                                 !.hasCorrectAnswer = PyS(<<"A", " ">>),
                                 !.teachesConcept = <<"e2", "e1">>,
                                 !.hasHint = <<"e2">>]],
        EntityOrder)

AnswerOntologies ==
    {o \in {AnswerOntology(sch, a1, a2, third) :
            sch \in Schemas({"Problem"}),
            a1 \in StoredAnswers,
            a2 \in {PyNone, PyS(<<"a">>)},
            third \in BOOLEAN} :
        Consistent(o)}

\* A concept, a second concept that may lack its code and may require the
\* first, and a problem that teaches them.
MixedOntologies ==
    {Ontology(SchemaNames,
        [e \in Entities |->
            CASE e = "e1" -> Individual({"GeometricConcept"}, <<"a">>, PyS(cA), d1, <<>>)
              [] e = "e2" -> Individual({"GeometricConcept"}, <<"b">>, c2, PyI(1), p2)
              [] OTHER    -> [Bare(<<"c">>) EXCEPT !.classes = {"Problem"},
                                                   !.hasProblemText = PyS(<<"a">>),
                                                   !.hasCorrectAnswer = a3,
                                                   !.teachesConcept = <<"e1">>,
                                                   !.hasHint = <<"e2">>]],
        EntityOrder) :
     d1 \in {PyI(1), PyNone},
     c2 \in {PyS(cB), PyNone},
     p2 \in {<<>>, <<"e1">>},
     a3 \in {PyNone, PyS(<<"a">>), PyS(<<" ", "A">>)}}

NoWorkers == <<>>

NoStudent == [known |-> {}, phase |-> "off"]

InitOn(ontologies) ==
    /\ onto \in ontologies
    /\ loaded = onto
    /\ last = NoRequest
    /\ workers = NoWorkers
    /\ student = NoStudent

InitConcepts == InitOn(GraphOntologies)

NextConcepts == list_concepts \/ get_concept \/ suggest_next_concepts \/ respond

\* The concept endpoints over the ontologies of GraphOntologies.
SpecConcepts == InitConcepts /\ [][NextConcepts]_vars

----------------------------------------------------------------------------
(* Concurrent requests.  The handlers are plain functions, which the       *)
(* framework runs on the threads of a pool: several requests are in flight *)
(* at once, and the loop of suggest_next_concepts of one request takes its *)
(* passes between the steps of the others.                                 *)

Workers == {"w1", "w2"}

\* The requests the concurrent clients send.
ConcurrentLists == Strings({cA, cB}, MaxMastered)

ConcurrentAnswers == {<<>>, <<"a">>}

IdleWorker ==
    [pc |-> "idle", req |-> <<>>, mastered |-> {}, suggestions |-> <<>>,
     i |-> 0, resp |-> NoRequest]

Answered(resp) == [IdleWorker EXCEPT !.pc = "done", !.resp = resp]

Others == <<onto, loaded, last, student>>

serve_list_concepts(w) ==
    /\ workers[w].pc = "idle"
    /\ workers' = [workers EXCEPT ![w] = Answered(list_concepts_response(onto))]
    /\ UNCHANGED Others

serve_get_concept(w) ==
    \E code \in RequestCodes :
        /\ workers[w].pc = "idle"
        /\ workers' = [workers EXCEPT ![w] = Answered(get_concept_response(onto, code))]
        /\ UNCHANGED Others

serve_list_problems(w) ==
    /\ workers[w].pc = "idle"
    /\ workers' = [workers EXCEPT ![w] = Answered(list_problems_response(onto))]
    /\ UNCHANGED Others

\* serve_check_answer keeping the normalised answer in the ontology.
serve_check_answer_caching(w) ==
    \E iri \in RequestIris, answer \in ConcurrentAnswers :
        \E problem \in world_lookup(onto, iri) :
            /\ workers[w].pc = "idle"
            /\ workers' = [workers EXCEPT ![w] = Answered(check_answer_response(onto,
                               [problem_iri |-> iri, answer |-> answer], problem))]
            /\ onto' = IF problem \in DOMAIN onto.ents
                          /\ get_data_prop(onto, problem, "hasCorrectAnswer") # PyNone
                       THEN [onto EXCEPT ![ "ents" ][problem].hasCorrectAnswer =
                                PyS(Lower(Strip(PyStr(
                                    get_data_prop(onto, problem, "hasCorrectAnswer")))))]
                       ELSE onto
            /\ UNCHANGED <<loaded, last, student>>

serve_check_answer(w) ==
    \E iri \in RequestIris, answer \in ConcurrentAnswers :
        \E problem \in world_lookup(onto, iri) :
            /\ workers[w].pc = "idle"
            /\ workers' = [workers EXCEPT ![w] = Answered(check_answer_response(onto,
                               [problem_iri |-> iri, answer |-> answer], problem))]
            /\ UNCHANGED Others

\* enter_next_concepts with mastered a variable of the module, shared by
\* the requests in flight.
enter_next_concepts_shared(w) ==
    \E req \in ConcurrentLists :
        /\ workers[w].pc = "idle"
        /\ workers' = [v \in Workers |->
               IF v # w THEN [workers[v] EXCEPT !.mastered = ToSet(req)]
               ELSE IF "GeometricConcept" \notin onto.schema
               THEN Answered(Response("suggest_next_concepts", req, 200, <<>>))
               ELSE [pc |-> "loop", req |-> req, mastered |-> ToSet(req),
                     suggestions |-> <<>>, i |-> 1, resp |-> NoRequest]]
        /\ UNCHANGED Others

\* suggest_next_concepts up to its loop: the request's own mastered set and
\* list of suggestions.
enter_next_concepts(w) ==
    \E req \in ConcurrentLists :
        /\ workers[w].pc = "idle"
        /\ workers' = [workers EXCEPT ![w] =
               IF "GeometricConcept" \notin onto.schema
               THEN Answered(Response("suggest_next_concepts", req, 200, <<>>))
               ELSE [pc |-> "loop", req |-> req, mastered |-> ToSet(req),
                     suggestions |-> <<>>, i |-> 1, resp |-> NoRequest]]
        /\ UNCHANGED Others

\* One pass of the loop.
loop_next_concepts(w) ==
    LET cs == instances(onto, "GeometricConcept")
    IN  /\ workers[w].pc = "loop"
        /\ workers[w].i <= Len(cs)
        /\ workers' = [workers EXCEPT
               ![w].suggestions = suggest_step(onto, workers[w].mastered,
                                               workers[w].suggestions, cs[workers[w].i]),
               ![w].i = workers[w].i + 1]
        /\ UNCHANGED Others

\* The loop is over: sort and return.
return_next_concepts(w) ==
    /\ workers[w].pc = "loop"
    /\ workers[w].i > Len(instances(onto, "GeometricConcept"))
    /\ workers' = [workers EXCEPT
           ![w].pc = "done",
           ![w].resp = Response("suggest_next_concepts", workers[w].req, 200,
                                sort_suggestions(workers[w].suggestions))]
    /\ UNCHANGED Others

\* The response leaves the process and the thread is free again.
send(w) ==
    /\ workers[w].pc = "done"
    /\ workers' = [workers EXCEPT ![w] = IdleWorker]
    /\ UNCHANGED Others

Init ==
    /\ onto \in MixedOntologies
    /\ loaded = onto
    /\ last = NoRequest
    /\ workers = [w \in Workers |-> IdleWorker]
    /\ student = NoStudent

Next ==
    \E w \in Workers :
        \/ serve_list_concepts(w)
        \/ serve_get_concept(w)
        \/ enter_next_concepts(w)
        \/ loop_next_concepts(w)
        \/ return_next_concepts(w)
        \/ serve_list_problems(w)
        \/ serve_check_answer(w)
        \/ send(w)

\* The five endpoints served concurrently.
Spec == Init /\ [][Next]_vars

----------------------------------------------------------------------------
(* C7 *)

\* Worker w is in the loop of suggest_next_concepts.
Looping(w) == workers[w].pc = "loop"

\* Worker w has answered a suggest_next_concepts request.
HasSuggested(w) ==
    workers[w].pc = "done" /\ workers[w].resp.op = "suggest_next_concepts"

----------------------------------------------------------------------------
(* C8 *)

\* What a process that has just loaded the ontology answers to a request.
FreshResponses(op, req) ==
    CASE op = "list_concepts" -> {list_concepts_response(loaded)}
      [] op = "get_concept" -> {get_concept_response(loaded, req)}
      [] op = "suggest_next_concepts" -> {suggest_next_concepts_response(loaded, req)}
      [] op = "list_problems" -> {list_problems_response(loaded)}
      [] op = "check_answer" ->
            {check_answer_response(loaded, req, problem) :
                problem \in world_lookup(loaded, req.problem_iri)}

\* C8: whatever requests have been served and are being served, those that
\* ended in an error included, the catalog (concepts, prerequisite edges,
\* problems, stored answers) is the one that was loaded, and every response
\* is the one a freshly loaded process gives.
C8_ReadOnly ==
    /\ onto = loaded
    /\ \A w \in Workers :
           workers[w].pc = "done" =>
               \E r \in FreshResponses(workers[w].resp.op, workers[w].resp.req) :
                   /\ r.status = workers[w].resp.status
                   /\ r.body = workers[w].resp.body

\* One request has ended in an error while another has been answered from
\* the catalog.
C8_Witness ==
    \E w, v \in Workers :
        /\ workers[w].pc = "done" /\ workers[w].resp.status = 404
        /\ workers[v].pc = "done" /\ workers[v].resp.op = "check_answer"
        /\ workers[v].resp.status = 200 /\ workers[v].resp.body.correct

----------------------------------------------------------------------------
(* What the claims speak of, read off the ontology itself *)

\* The concepts of the catalog.
Catalog(o) == {e \in DOMAIN o.ents : "GeometricConcept" \in o.ents[e].classes}

\* e carries a code that is not empty.
HasCode(o, e) ==
    o.ents[e].hasConceptCode.t = "str" /\ Len(o.ents[e].hasConceptCode.s) > 0

CodeText(o, e) == o.ents[e].hasConceptCode.s

\* The direct prerequisites of e.
Prereqs(o, e) == ToSet(o.ents[e].hasPrerequisite)

\* e's code is one of the codes of K.
CodeIn(o, e, K) == o.ents[e].hasConceptCode.t = "str" /\ CodeText(o, e) \in K

\* The concepts a list of Concept views names.
Recommended(body) == {body[i].iri : i \in 1..Len(body)}

Suggested == last.op = "suggest_next_concepts"

RECURSIVE SetToSeq(_)
SetToSeq(S) ==
    IF S = {} THEN <<>>
    ELSE LET x == CHOOSE y \in S : TRUE IN <<x>> \o SetToSeq(S \ {x})

\* The catalog of the example: A, B that requires A, C that requires B.
IsChain(o) ==
    /\ o.schema = SchemaNames
    /\ Catalog(o) = Entities
    /\ o.ents["e1"].hasConceptCode = PyS(cA) /\ o.ents["e1"].hasPrerequisite = <<>>
    /\ o.ents["e2"].hasConceptCode = PyS(cB) /\ o.ents["e2"].hasPrerequisite = <<"e1">>
    /\ o.ents["e3"].hasConceptCode = PyS(cC) /\ o.ents["e3"].hasPrerequisite = <<"e2">>

----------------------------------------------------------------------------
(* C1 *)

\* C1 as claimed: suggest_next_concepts returns a concept exactly when it
\* has a non-empty code, its code is not mastered, and the code of every
\* direct prerequisite is mastered.
C1_AsClaimed ==
    Suggested =>
        \A c \in Catalog(onto) :
            c \in Recommended(last.body) <=>
                /\ HasCode(onto, c)
                /\ ~CodeIn(onto, c, ToSet(last.req))
                /\ \A p \in Prereqs(onto, c) : CodeIn(onto, p, ToSet(last.req))

\* C1, amended: suggest_next_concepts returns exactly the catalog concepts,
\* each once, that have a non-empty code, whose code is not mastered, and
\* whose direct prerequisites that carry a non-empty code all have it
\* mastered (a prerequisite without a code is not looked at); for the catalog
\* A, B requires A, C requires B and K = {A} the result is exactly B.
C1_Membership ==
    Suggested =>
        /\ Recommended(last.body) \subseteq Catalog(onto)
        /\ Cardinality(Recommended(last.body)) = Len(last.body)
        /\ \A c \in Catalog(onto) :
               c \in Recommended(last.body) <=>
                   /\ HasCode(onto, c)
                   /\ ~CodeIn(onto, c, ToSet(last.req))
                   /\ \A p \in Prereqs(onto, c) :
                          HasCode(onto, p) => CodeIn(onto, p, ToSet(last.req))
        /\ (IsChain(onto) /\ ToSet(last.req) = {cA}) =>
               (Len(last.body) = 1 /\ last.body[1].code = PyS(cB))

\* The example of the claim has been asked and answered with B alone.
C1_Witness ==
    /\ Suggested
    /\ IsChain(onto)
    /\ last.req = <<cA>>
    /\ Recommended(last.body) = {"e2"}

----------------------------------------------------------------------------
(* C6 *)

\* The request codes that no catalog concept carries.
CodesOfNoConcept(o) ==
    {u \in RequestCodes : \A c \in Catalog(o) : ~CodeIn(o, c, {u})}

\* The request codes that neither a catalog concept nor a prerequisite of
\* one carries.
CodesOfNoConceptOrPrereq(o) ==
    {u \in CodesOfNoConcept(o) :
        \A c \in Catalog(o) : \A p \in Prereqs(o, c) : ~CodeIn(o, p, {u})}

\* C6 as claimed: mastered codes that no catalog concept carries change
\* nothing: suggest_next_concepts(K + U) = suggest_next_concepts(K).
C6_AsClaimed ==
    Suggested =>
        \A U \in SUBSET CodesOfNoConcept(onto) :
            suggestions_for(onto, last.req \o SetToSeq(U)) = last.body

\* C6, amended: mastered codes carried by no catalog concept and by no
\* prerequisite of a catalog concept change nothing and cause no error:
\* suggest_next_concepts(K + U) returns the list suggest_next_concepts(K)
\* returns, with status 200.
C6_UnknownCodesIgnored ==
    Suggested =>
        /\ last.status = 200
        /\ \A U \in SUBSET CodesOfNoConceptOrPrereq(onto) :
               suggestions_for(onto, last.req \o SetToSeq(U)) = last.body

\* A request that names a code of no concept and of no prerequisite beside
\* a mastered concept has been answered with a recommendation.
C6_Witness ==
    /\ Suggested
    /\ \E i \in 1..Len(last.req) : last.req[i] \in CodesOfNoConceptOrPrereq(onto)
    /\ \E c \in Catalog(onto) : CodeIn(onto, c, ToSet(last.req))
    /\ Len(last.body) > 0

----------------------------------------------------------------------------
(* C9 *)

\* The cycles of the prerequisite relation: lists of distinct individuals,
\* each requiring the next and the last requiring the first.
Cycles(o) ==
    {cyc \in UNION {[1..n -> DOMAIN o.ents] : n \in 1..Cardinality(DOMAIN o.ents)} :
        /\ \A i, j \in 1..Len(cyc) : i # j => cyc[i] # cyc[j]
        /\ \A i \in 1..Len(cyc) : cyc[(i % Len(cyc)) + 1] \in Prereqs(o, cyc[i])}

\* No member of the cycle is mastered.
Unlearned(o, cyc, K) == \A i \in 1..Len(cyc) : ~CodeIn(o, cyc[i], K)

\* C9 as claimed: no member of a cycle of unmastered concepts is
\* recommended, whether or not its members carry a code, and the call ends
\* without error.
C9_AsClaimed ==
    Suggested =>
        /\ last.status = 200
        /\ \A cyc \in Cycles(onto) :
               Unlearned(onto, cyc, ToSet(last.req)) =>
                   \A i \in 1..Len(cyc) : cyc[i] \notin Recommended(last.body)

\* C9, amended: of a cycle of unmastered concepts, no member whose
\* prerequisite in the cycle carries a non-empty code is recommended (so no
\* member at all when every member of the cycle carries one), and the call
\* ends without error.
C9_CycleNotRecommended ==
    Suggested =>
        /\ last.status = 200
        /\ \A cyc \in Cycles(onto) :
               Unlearned(onto, cyc, ToSet(last.req)) =>
                   \A i \in 1..Len(cyc) :
                       HasCode(onto, cyc[(i % Len(cyc)) + 1]) =>
                           cyc[i] \notin Recommended(last.body)

\* A catalog with a cycle of two concepts that carry codes, neither
\* mastered, has been asked for recommendations and has named another one.
C9_Witness ==
    /\ Suggested
    /\ \E cyc \in Cycles(onto) :
           /\ Len(cyc) = 2
           /\ \A i \in 1..2 : cyc[i] \in Catalog(onto) /\ HasCode(onto, cyc[i])
           /\ Unlearned(onto, cyc, ToSet(last.req))
    /\ Len(last.body) > 0

\* The concept endpoints over the ontologies of OrderOntologies.
InitOrder == InitOn(OrderOntologies)

SpecOrder == InitOrder /\ [][NextConcepts]_vars

----------------------------------------------------------------------------
(* C2 *)

HasDifficulty(x) == x.difficulty.t = "int"

\* The order of the claim: x has to come before y.
RanksBefore(x, y) ==
    \/ HasDifficulty(x) /\ HasDifficulty(y) /\ x.difficulty.n < y.difficulty.n
    \/ HasDifficulty(x) /\ ~HasDifficulty(y)
    \/ /\ HasDifficulty(x) = HasDifficulty(y)
       /\ x.difficulty.n = y.difficulty.n
       /\ StrLess(Lower(x.label), Lower(y.label))

\* C2: the list suggest_next_concepts returns is sorted by difficulty
\* ascending, concepts without a difficulty after all those with one, and
\* among equal difficulties by label, case-insensitive, ascending.
C2_Sorted ==
    Suggested =>
        \A i, j \in 1..Len(last.body) :
            i < j => ~RanksBefore(last.body[j], last.body[i])

----------------------------------------------------------------------------
(* C3 *)

\* C3: the list suggest_next_concepts returns is the same for every
\* iteration order of the catalog.
C3_OrderIndependent ==
    Suggested =>
        \A p \in Orderings(onto.order) :
            suggestions_for([onto EXCEPT !.order = p], last.req) = last.body

----------------------------------------------------------------------------
\* The problem endpoints over the ontologies of AnswerOntologies.
InitAnswers == InitOn(AnswerOntologies)

NextProblems == list_problems \/ check_answer \/ respond

SpecAnswers == InitAnswers /\ [][NextProblems]_vars

Checked == last.op = "check_answer"

\* The reference names a problem of the ontology.
IsProblem(o, iri) == iri \in DOMAIN o.ents /\ "Problem" \in o.ents[iri].classes

----------------------------------------------------------------------------
(* C4 *)

\* C4: check_answer with a reference that does not resolve to a known
\* problem (an identifier of no entity, or of an entity that is no problem)
\* ends in NotFound.
C4_UnknownProblemNotFound ==
    (Checked /\ ~IsProblem(onto, last.req.problem_iri)) => last.status = 404

----------------------------------------------------------------------------
(* C5 *)

\* The problem holds a correct answer that can be read.
HasStoredAnswer(o, p) == o.ents[p].hasCorrectAnswer.t \in {"str", "int"}

\* The text of the stored answer.
StoredText(o, p) ==
    IF o.ents[p].hasCorrectAnswer.t = "str" THEN o.ents[p].hasCorrectAnswer.s
    ELSE PyStr(o.ents[p].hasCorrectAnswer)

\* s is t with whitespace added in front and behind.
IsPadded(s, t) ==
    \E i \in 0..Len(s) :
        /\ i + Len(t) <= Len(s)
        /\ \A k \in 1..Len(s) :
               IF k > i /\ k <= i + Len(t) THEN s[k] = t[k - i] ELSE IsSpace(s[k])

\* s without its leading and trailing whitespace.
Trimmed(s) ==
    CHOOSE t \in {SubSeq(s, i, j) : i \in 1..(Len(s) + 1), j \in 0..Len(s)} :
        /\ IsPadded(s, t)
        /\ t # <<>> => (~IsSpace(t[1]) /\ ~IsSpace(t[Len(t)]))

SameUpToCase(s, t) ==
    /\ Len(s) = Len(t)
    /\ \A k \in 1..Len(s) : LowerChar(s[k]) = LowerChar(t[k])

\* C5: for a problem with a stored correct answer check_answer answers
\* correct = true exactly when the submitted and the stored answer are equal
\* after trimming leading and trailing whitespace and folding case, and in
\* both outcomes echoes the stored answer, untrimmed and unfolded.
C5_AnswerCheck ==
    (/\ Checked
     /\ IsProblem(onto, last.req.problem_iri)
     /\ HasStoredAnswer(onto, last.req.problem_iri)) =>
        /\ last.status = 200
        /\ last.body.correct <=>
               SameUpToCase(Trimmed(last.req.answer),
                            Trimmed(StoredText(onto, last.req.problem_iri)))
        /\ last.body.correct_answer = PyS(StoredText(onto, last.req.problem_iri))

\* An answer that differs from the stored one in case and in outer
\* whitespace has been accepted, and the stored answer echoed as stored.
C5_Witness ==
    /\ Checked
    /\ IsProblem(onto, last.req.problem_iri)
    /\ HasStoredAnswer(onto, last.req.problem_iri)
    /\ last.status = 200
    /\ last.body.correct
    /\ last.req.answer # StoredText(onto, last.req.problem_iri)
    /\ Trimmed(StoredText(onto, last.req.problem_iri)) # StoredText(onto, last.req.problem_iri)
    /\ Lower(last.req.answer) # last.req.answer

----------------------------------------------------------------------------
(* A student who learns what is recommended: starting from nothing, the    *)
(* client asks for recommendations with what it has mastered, and adds one *)
(* of the concepts returned to what it has mastered.                       *)

ask ==
    /\ student.phase = "ask"
    /\ last' = suggest_next_concepts_response(onto, SetToSeq(student.known))
    /\ student' = [student EXCEPT !.phase = "pick"]
    /\ UNCHANGED <<onto, loaded, workers>>

learn ==
    /\ student.phase = "pick"
    /\ \E i \in 1..Len(last.body) :
           student' = [known |-> student.known \cup {last.body[i].code.s},
                       phase |-> "ask"]
    /\ last' = NoRequest
    /\ UNCHANGED <<onto, loaded, workers>>

InitLearn ==
    /\ onto \in GraphOntologies
    /\ loaded = onto
    /\ last = NoRequest
    /\ workers = NoWorkers
    /\ student = [known |-> {}, phase |-> "ask"]

NextLearn == ask \/ learn

\* The student goes on asking and learning as long as there is something to
\* ask or to learn.
SpecLearn == InitLearn /\ [][NextLearn]_vars /\ WF_vars(ask) /\ WF_vars(learn)

----------------------------------------------------------------------------
(* C10 *)

\* Every concept carries a non-empty code of its own, every prerequisite of
\* a concept is a concept, and no concept is on a cycle.
WellFormed(o) ==
    /\ \A c \in Catalog(o) : HasCode(o, c) /\ Prereqs(o, c) \subseteq Catalog(o)
    /\ \A c, d \in Catalog(o) : c # d => CodeText(o, c) # CodeText(o, d)
    /\ \A cyc \in Cycles(o) : \A i \in 1..Len(cyc) : cyc[i] \notin Catalog(o)

AllMastered == \A c \in Catalog(onto) : CodeIn(onto, c, student.known)

\* C10: on a well-formed catalog a student who starts with nothing mastered
\* and keeps adding a recommended concept in the end has every concept
\* mastered; each answer before that recommends something, and the answers
\* from then on recommend nothing.
C10_Progress ==
    /\ [](WellFormed(onto) =>
            (student.phase = "pick" => (Len(last.body) = 0 <=> AllMastered)))
    /\ <>(WellFormed(onto) => AllMastered)

\* The student has learnt a chain of three concepts one by one and is told
\* there is nothing left.
C10_Witness ==
    /\ IsChain(onto)
    /\ WellFormed(onto)
    /\ student.phase = "pick"
    /\ student.known = {cA, cB, cC}
    /\ Len(last.body) = 0

====
